---- MODULE Spec2Model ----
(***************************************************************************)
(* A model of rheology.py: the upload loop that loads spreadsheets into    *)
(* sample tables, create_rheology_plot and its column resolution, the      *)
(* three metric plot sections and the diagnostics panel.                   *)
(*                                                                         *)
(* A Python str is a sequence of one-character strings, so that strip(),   *)
(* lower() and the substring test `in` are computed and not assumed.       *)
(* A column label is a record [type, val]: type "str" for text, "int" for  *)
(* a numeric header cell (val holds its digits); None is NoneValue.        *)
(***************************************************************************)
EXTENDS Integers, Sequences, FiniteSets

VARIABLES uploaded_files, pc, idx, dataframes, debug_info, errors,
          warnings, results, resolved, panel

vars == <<uploaded_files, pc, idx, dataframes, debug_info, errors,
          warnings, results, resolved, panel>>

(***************************************************************************)
(* Bounds of the model.                                                    *)
(***************************************************************************)
\* number of files uploaded in one session
MaxFiles == 2
\* number of rows under the header row of a sheet (units row included)
MaxRows == 3

(***************************************************************************)
(* Python str operations.                                                  *)
(***************************************************************************)
LowerOf ==
    [A |-> "a", B |-> "b", C |-> "c", D |-> "d", E |-> "e", F |-> "f", G |-> "g",
     H |-> "h", I |-> "i", J |-> "j", K |-> "k", L |-> "l", M |-> "m", N |-> "n",
     O |-> "o", P |-> "p", Q |-> "q", R |-> "r", S |-> "s", T |-> "t", U |-> "u",
     V |-> "v", W |-> "w", X |-> "x", Y |-> "y", Z |-> "z"]

UpperOf ==
    [a |-> "A", b |-> "B", c |-> "C", d |-> "D", e |-> "E", f |-> "F", g |-> "G",
     h |-> "H", i |-> "I", j |-> "J", k |-> "K", l |-> "L", m |-> "M", n |-> "N",
     o |-> "O", p |-> "P", q |-> "Q", r |-> "R", s |-> "S", t |-> "T", u |-> "U",
     v |-> "V", w |-> "W", x |-> "X", y |-> "Y", z |-> "Z"]

Whitespace == {" ", "\t"}

IsUpper(ch) == ch \in DOMAIN LowerOf

IsLower(ch) == ch \in DOMAIN UpperOf

LowerChar(ch) == IF IsUpper(ch) THEN LowerOf[ch] ELSE ch

UpperChar(ch) == IF IsLower(ch) THEN UpperOf[ch] ELSE ch

\* str.lower()
Lower(s) == [i \in 1..Len(s) |-> LowerChar(s[i])]

\* str.swapcase()
SwapCase(s) ==
    [i \in 1..Len(s) |-> IF IsUpper(s[i]) THEN LowerChar(s[i]) ELSE UpperChar(s[i])]

RECURSIVE LStrip(_)
LStrip(s) ==
    IF s # <<>> /\ Head(s) \in Whitespace THEN LStrip(Tail(s)) ELSE s

RECURSIVE RStrip(_)
RStrip(s) ==
    IF s # <<>> /\ s[Len(s)] \in Whitespace
    THEN RStrip(SubSeq(s, 1, Len(s) - 1))
    ELSE s

\* str.strip()
Strip(s) == RStrip(LStrip(s))

\* the substring test `t in c`
Contains(t, c) ==
    \E k \in 1..(Len(c) - Len(t) + 1) : SubSeq(c, k, k + Len(t) - 1) = t

(***************************************************************************)
(* COLUMN_NAMES, the logical names the plot sections pass as x_col, y_col. *)
(***************************************************************************)
\* "Angular Frequency"
AngularFrequency ==
    <<"A", "n", "g", "u", "l", "a", "r", " ", "F", "r", "e", "q", "u", "e", "n", "c", "y">>

\* "Storage modulus"
StorageModulus ==
    <<"S", "t", "o", "r", "a", "g", "e", " ", "m", "o", "d", "u", "l", "u", "s">>

\* "Loss modulus"
LossModulus ==
    <<"L", "o", "s", "s", " ", "m", "o", "d", "u", "l", "u", "s">>

\* "Complex viscosity"
ComplexViscosity ==
    <<"C", "o", "m", "p", "l", "e", "x", " ", "v", "i", "s", "c", "o", "s", "i", "t", "y">>

COLUMN_NAMES ==
    [frequency |-> AngularFrequency,
     g_prime |-> StorageModulus,
     g_double_prime |-> LossModulus,
     complex_viscosity |-> ComplexViscosity]

Metrics == {"g_prime", "g_double_prime", "complex_viscosity"}

(***************************************************************************)
(* Column labels and the headers of the uploaded sheets.                   *)
(***************************************************************************)
Str(s) == [type |-> "str", val |-> s]

IntLabel(digits) == [type |-> "int", val |-> digits]

NoneValue == [type |-> "NoneType", val |-> <<>>]

\* " ANGULAR FREQUENCY "
ColFreqPadded ==
    <<" ", "A", "N", "G", "U", "L", "A", "R", " ", "F", "R", "E", "Q", "U", "E", "N", "C", "Y", " ">>

\* " Ang. Frequency (rad/s) "
ColFreqAbbrev ==
    <<" ", "A", "n", "g", ".", " ", "F", "r", "e", "q", "u", "e", "n", "c", "y", " ", "(", "r", "a", "d", "/", "s", ")", " ">>

\* "Angular Frequency (Hz)"
ColFreqHz ==
    <<"A", "n", "g", "u", "l", "a", "r", " ", "F", "r", "e", "q", "u", "e", "n", "c", "y", " ", "(", "H", "z", ")">>

\* "angular frequency"
ColFreqPlain ==
    <<"a", "n", "g", "u", "l", "a", "r", " ", "f", "r", "e", "q", "u", "e", "n", "c", "y">>

\* "Storage Modulus (Pa)"
ColStoragePa ==
    <<"S", "t", "o", "r", "a", "g", "e", " ", "M", "o", "d", "u", "l", "u", "s", " ", "(", "P", "a", ")">>

\* "storage modulus"
ColStoragePlain ==
    <<"s", "t", "o", "r", "a", "g", "e", " ", "m", "o", "d", "u", "l", "u", "s">>

\* "LOSS MODULUS"
ColLossUpper ==
    <<"L", "O", "S", "S", " ", "M", "O", "D", "U", "L", "U", "S">>

\* "Temp"
ColTemp ==
    <<"T", "e", "m", "p">>

\* every metric present, in mixed case and with padding
HeaderFull ==
    <<Str(ColFreqPadded), Str(StorageModulus), Str(ColLossUpper), Str(ComplexViscosity)>>

\* the frequency column is abbreviated
HeaderAbbrev ==
    <<Str(ColFreqAbbrev), Str(StorageModulus), Str(LossModulus), Str(ComplexViscosity)>>

\* two columns match the frequency and the storage modulus; no viscosity
HeaderAmbiguous ==
    <<Str(ColTemp), Str(ColFreqHz), Str(ColFreqPlain), Str(ColStoragePa),
      Str(ColStoragePlain), Str(LossModulus)>>

\* a numeric header cell
HeaderNumeric ==
    <<IntLabel(<<"1", "0", "0">>), Str(AngularFrequency), Str(StorageModulus),
      Str(LossModulus), Str(ComplexViscosity)>>

\* no storage modulus
HeaderNoStorage ==
    <<Str(AngularFrequency), Str(LossModulus), Str(ComplexViscosity)>>

\* the two columns of a storage-modulus sweep
HeaderShort ==
    <<Str(AngularFrequency), Str(StorageModulus)>>

Headers == {HeaderFull, HeaderAbbrev, HeaderAmbiguous, HeaderNumeric, HeaderNoStorage}

FileNames == <<"s1.xlsx", "s2.xls", "s3.xlsx", "s4.xls">>

(***************************************************************************)
(* Cells of a sheet as read_excel returns them.                            *)
(***************************************************************************)
NaN == "NaN"

NumericCells == {"10", "2.5"}

\* pd.to_numeric(..., errors='coerce') on one cell
ToNumeric(cell) == IF cell \in NumericCells THEN cell ELSE NaN

(***************************************************************************)
(* The upload loop (the loader).                                           *)
(***************************************************************************)
\* rows shown by DataFrame.head()
HeadRows == 5

\* DataFrame.head()
DfHead(rows) == SubSeq(rows, 1, IF Len(rows) < HeadRows THEN Len(rows) ELSE HeadRows)

\* variant: the first row is dropped only when it holds a non-numeric cell
DropUnitsRowIfText(rows) ==
    IF rows # <<>> /\ \E j \in 1..Len(rows[1]) : rows[1][j] \notin NumericCells
    THEN Tail(rows)
    ELSE rows

\* df_original.iloc[1:].reset_index(drop=True)
DropUnitsRow(rows) == IF rows = <<>> THEN <<>> ELSE Tail(rows)

\* for col in df_processed.columns: df_processed[col] = pd.to_numeric(...)
CoerceColumns(rows) ==
    [i \in 1..Len(rows) |-> [j \in 1..Len(rows[i]) |-> ToNumeric(rows[i][j])]]

RowHasNoNaN(row) == \A j \in 1..Len(row) : row[j] # NaN

RowAllNaN(row) == \A j \in 1..Len(row) : row[j] = NaN

RowNotAllNaN(row) == ~RowAllNaN(row)

\* variant: dropna(how='all'), dropping only the rows with no value at all
DropNaAllBlank(rows) == SelectSeq(rows, RowNotAllNaN)

\* df_processed.dropna(inplace=True)
DropNa(rows) == SelectSeq(rows, RowHasNoNaN)

\* the cleaned table of one readable file
ProcessFile(f) ==
    [columns |-> f.columns,
     rows |-> DropNa(CoerceColumns(DropUnitsRow(f.rows))),
     name |-> f.name]

\* variant: the try wraps the whole loop, so a failure ends it
LoadStepBreak(L, files) ==
    LET f == files[L.i]
    IN  IF f.readable
        THEN [i |-> L.i + 1,
              dataframes |-> Append(L.dataframes, ProcessFile(f)),
              debug_info |-> Append(L.debug_info,
                                    [name |-> f.name,
                                     original_columns |-> f.columns,
                                     processed_head |-> DfHead(ProcessFile(f).rows)]),
              errors |-> L.errors]
        ELSE [i |-> Len(files) + 1,
              dataframes |-> L.dataframes,
              debug_info |-> L.debug_info,
              errors |-> Append(L.errors, f.name)]

\* one iteration of `for uploaded_file in uploaded_files`, try and except
LoadStep(L, files) ==
    LET f == files[L.i]
    IN  IF f.readable
        THEN LET df == ProcessFile(f)
             IN  [i |-> L.i + 1,
                  dataframes |-> Append(L.dataframes, df),
                  debug_info |-> Append(L.debug_info,
                                        [name |-> f.name,
                                         original_columns |-> f.columns,
                                         processed_head |-> DfHead(df.rows)]),
                  errors |-> L.errors]
        ELSE [i |-> L.i + 1,
              dataframes |-> L.dataframes,
              debug_info |-> L.debug_info,
              errors |-> Append(L.errors, f.name)]

(***************************************************************************)
(* create_rheology_plot.                                                   *)
(***************************************************************************)
\* variant: c.strip() alone
NormalizeNoLower(s) == Strip(s)

\* variant: c.strip().swapcase()
NormalizeSwapCase(s) == SwapCase(Strip(s))

\* c.strip().lower()
Normalize(s) == Lower(Strip(s))

\* df.empty
DfEmpty(df) == Len(df.rows) = 0 \/ Len(df.columns) = 0

\* variant: the last matching column instead of the first
ResolveLast(columns, target) ==
    IF \E j \in 1..Len(columns) : Contains(target, columns[j].val)
    THEN LET S == {j \in 1..Len(columns) : Contains(target, columns[j].val)}
         IN  columns[CHOOSE j \in S : \A k \in S : k <= j]
    ELSE [type |-> "NoneType", val |-> <<>>]

\* next((c for c in df.columns if target in c), None)
Resolve(columns, target) ==
    IF \E j \in 1..Len(columns) : Contains(target, columns[j].val)
    THEN LET S == {j \in 1..Len(columns) : Contains(target, columns[j].val)}
         IN  columns[CHOOSE j \in S : \A k \in S : j <= k]
    ELSE NoneValue

\* the truth value of `actual_x_col` in `if actual_x_col and actual_y_col`
Truthy(c) == c # NoneValue /\ c.val # <<>>

\* variant: continue without the warning
SkipEmptySilently(acc, name) == acc

\* `if df.empty`: warn and continue
SkipEmpty(acc, name) ==
    [acc EXCEPT !.warnings = Append(@, [kind |-> "empty", name |-> name])]

\* variant: warn and go on to the next sample
SkipUnresolved(acc, name) ==
    [acc EXCEPT !.warnings = Append(@, [kind |-> "unresolved", name |-> name])]

\* the else branch: warn and return None, None
AbortUnresolved(acc, name) ==
    [acc EXCEPT !.warnings = Append(@, [kind |-> "unresolved", name |-> name]),
                !.status = "returned"]

\* ax.plot(df[actual_x_col], df[actual_y_col], ..., label=name)
PlotSeries(acc, name, x, y) ==
    [acc EXCEPT !.series = Append(@, [label |-> name, x |-> x.val, y |-> y.val]),
                !.plot_success_count = @ + 1]

\* one iteration of `for df, name in dataframes_with_names`
PlotIter(acc, i, x_col, y_col) ==
    LET df == acc.dfs[i]
    IN  IF DfEmpty(df)
        THEN SkipEmpty(acc, df.name)
        ELSE IF \E j \in 1..Len(df.columns) : df.columns[j].type # "str"
        THEN \* c.strip() raises AttributeError; df.columns is not assigned
             [acc EXCEPT !.status = "raised"]
        ELSE LET cols == [j \in 1..Len(df.columns) |->
                            Str(Normalize(df.columns[j].val))]
                 x == Resolve(cols, Lower(x_col))
                 y == Resolve(cols, Lower(y_col))
                 seen == [acc EXCEPT !.dfs[i].columns = cols,
                                     !.log = Append(@, [pos |-> i, name |-> df.name,
                                                        actual_x_col |-> x,
                                                        actual_y_col |-> y])]
             IN  IF Truthy(x) /\ Truthy(y)
                 THEN PlotSeries(seen, df.name, x, y)
                 ELSE AbortUnresolved(seen, df.name)

RECURSIVE PlotLoop(_, _, _, _)
PlotLoop(acc, i, x_col, y_col) ==
    IF i > Len(acc.dfs) \/ acc.status # "running"
    THEN acc
    ELSE PlotLoop(PlotIter(acc, i, x_col, y_col), i + 1, x_col, y_col)

\* variant: `plot_success_count >= 0`
PlotReturnAnyCount(acc) ==
    IF acc.status = "raised"
    THEN [kind |-> "raised", series |-> <<>>, plot_success_count |-> acc.plot_success_count]
    ELSE IF acc.status = "returned"
    THEN [kind |-> "none", series |-> <<>>, plot_success_count |-> acc.plot_success_count]
    ELSE [kind |-> "chart", series |-> acc.series,
          plot_success_count |-> acc.plot_success_count]

\* what the call hands back: fig, buf or None, None (or the exception)
PlotReturn(acc) ==
    IF acc.status = "raised"
    THEN [kind |-> "raised", series |-> <<>>, plot_success_count |-> acc.plot_success_count]
    ELSE IF acc.status = "returned"
    THEN [kind |-> "none", series |-> <<>>, plot_success_count |-> acc.plot_success_count]
    ELSE IF acc.plot_success_count > 0
    THEN [kind |-> "chart", series |-> acc.series,
          plot_success_count |-> acc.plot_success_count]
    ELSE [kind |-> "none", series |-> <<>>, plot_success_count |-> acc.plot_success_count]

\* create_rheology_plot(dataframes_with_names, x_col, y_col, ...)
CreateRheologyPlot(dfs, x_col, y_col) ==
    LET acc == PlotLoop([dfs |-> dfs, series |-> <<>>, plot_success_count |-> 0,
                         warnings |-> <<>>, log |-> <<>>, status |-> "running"],
                        1, x_col, y_col)
    IN  [dfs |-> acc.dfs, warnings |-> acc.warnings, log |-> acc.log,
         result |-> PlotReturn(acc)]

Pending == [kind |-> "pending", series |-> <<>>, plot_success_count |-> 0]

(***************************************************************************)
(* The uploads of one session.                                             *)
(***************************************************************************)
SeqsUpTo(S, n) == UNION {[1..k -> S] : k \in 0..n}

UnitsRow(w) == [j \in 1..w |-> "Pa"]

NumericRow(w) == [j \in 1..w |-> "10"]

Unreadable(name) ==
    [name |-> name, readable |-> FALSE, columns |-> <<>>, rows |-> <<>>]

Sheet(name, header, rows) ==
    [name |-> name, readable |-> TRUE, columns |-> header, rows |-> rows]

\* a sheet with the units row only, or with one measurement under it
SessionFiles(name) ==
    {Unreadable(name)} \cup
    UNION {{Sheet(name, h, <<UnitsRow(Len(h))>>),
            Sheet(name, h, <<UnitsRow(Len(h)), NumericRow(Len(h))>>)} : h \in Headers}

\* rows of a two-column sheet: a measurement, units, a text cell, a blank cell
RowPool == {<<"10", "2.5">>, <<"Pa", "Pa">>, <<"10", "n/a">>, <<NaN, "10">>}

LoaderFiles(name) ==
    {Sheet(name, HeaderShort, rows) : rows \in SeqsUpTo(RowPool, MaxRows)}

NameOf(i) == FileNames[((i - 1) % Len(FileNames)) + 1]

Start ==
    /\ pc = "load"
    /\ idx = 1
    /\ dataframes = <<>>
    /\ debug_info = <<>>
    /\ errors = <<>>
    /\ warnings = [m \in Metrics |-> <<>>]
    /\ results = [m \in Metrics |-> Pending]
    /\ resolved = [m \in Metrics |-> <<>>]
    /\ panel = <<>>

Init ==
    /\ \E n \in 0..MaxFiles :
         \E fs \in [1..n -> UNION {SessionFiles(NameOf(i)) : i \in 1..n}] :
            /\ \A i \in 1..n : fs[i].name = NameOf(i)
            /\ uploaded_files = fs
    /\ Start

InitLoader ==
    /\ \E n \in 1..MaxFiles : \E p \in 1..n : \E f \in LoaderFiles(NameOf(p)) :
         uploaded_files = [i \in 1..n |-> IF i = p THEN f ELSE Unreadable(NameOf(i))]
    /\ Start

(***************************************************************************)
(* The script, top to bottom.                                              *)
(***************************************************************************)
LoadFile ==
    /\ pc = "load"
    /\ idx <= Len(uploaded_files)
    /\ LET L == LoadStep([i |-> idx, dataframes |-> dataframes,
                          debug_info |-> debug_info, errors |-> errors],
                         uploaded_files)
       IN  /\ idx' = L.i
           /\ dataframes' = L.dataframes
           /\ debug_info' = L.debug_info
           /\ errors' = L.errors
    /\ UNCHANGED <<uploaded_files, pc, warnings, results, resolved, panel>>

\* `if dataframes:` after the loop
EndLoad ==
    /\ pc = "load"
    /\ idx > Len(uploaded_files)
    /\ pc' = IF dataframes # <<>> THEN "g_prime" ELSE "done"
    /\ UNCHANGED <<uploaded_files, idx, dataframes, debug_info, errors,
                   warnings, results, resolved, panel>>

PlotSection(metric, next) ==
    /\ pc = metric
    /\ LET r == CreateRheologyPlot(dataframes, COLUMN_NAMES.frequency,
                                   COLUMN_NAMES[metric])
       IN  /\ dataframes' = r.dfs
           /\ warnings' = [warnings EXCEPT ![metric] = r.warnings]
           /\ resolved' = [resolved EXCEPT ![metric] = r.log]
           /\ results' = [results EXCEPT ![metric] = r.result]
           /\ pc' = IF r.result.kind = "raised" THEN "crashed" ELSE next
    /\ UNCHANGED <<uploaded_files, idx, debug_info, errors, panel>>

PlotStorage == PlotSection("g_prime", "g_double_prime")

PlotLoss == PlotSection("g_double_prime", "complex_viscosity")

PlotViscosity == PlotSection("complex_viscosity", "debug")

\* the expander with one block per entry of debug_info
ShowDebug ==
    /\ pc = "debug"
    /\ panel' = [i \in 1..Len(debug_info) |-> debug_info[i].name]
    /\ pc' = "done"
    /\ UNCHANGED <<uploaded_files, idx, dataframes, debug_info, errors,
                   warnings, results, resolved>>

Next ==
    \/ LoadFile
    \/ EndLoad
    \/ PlotStorage
    \/ PlotLoss
    \/ PlotViscosity
    \/ ShowDebug

Spec == Init /\ [][Next]_vars

SpecLoader == InitLoader /\ [][Next]_vars

(***************************************************************************)
(* Vocabulary of the properties, stated on positions of the strings and    *)
(* not through the operators above.                                        *)
(***************************************************************************)
NonBlank(s) == {i \in 1..Len(s) : s[i] \notin Whitespace}

Trimmed(s) ==
    LET nb == NonBlank(s)
    IN  IF nb = {}
        THEN <<>>
        ELSE SubSeq(s, CHOOSE i \in nb : \A k \in nb : i <= k,
                       CHOOSE i \in nb : \A k \in nb : k <= i)

\* target occurs in the trimmed name, letter case ignored
Matches(label, target) ==
    /\ label.type = "str"
    /\ LET n == Trimmed(label.val)
       IN  \E k \in 0..(Len(n) - Len(target)) :
              \A j \in 1..Len(target) : LowerChar(n[k + j]) = LowerChar(target[j])

HasMatch(columns, target) == \E j \in 1..Len(columns) : Matches(columns[j], target)

AllText(columns) == \A j \in 1..Len(columns) : columns[j].type = "str"

FileNamed(name) ==
    uploaded_files[CHOOSE i \in 1..Len(uploaded_files) : uploaded_files[i].name = name]

Called(m) == results[m].kind # "pending"

Entries(m) == {resolved[m][k] : k \in 1..Len(resolved[m])}

XTarget == COLUMN_NAMES.frequency

AllNumeric(row) == \A j \in 1..Len(row) : row[j] \in NumericCells

\* the sample tables as the loader leaves them, before any plot call
FreshSamples ==
    LET readable == SelectSeq(uploaded_files, LAMBDA f : f.readable)
    IN  [k \in 1..Len(readable) |-> ProcessFile(readable[k])]

PlotAlone(m) ==
    CreateRheologyPlot(FreshSamples, COLUMN_NAMES.frequency, COLUMN_NAMES[m]).result

\* the loop of call m gets as far as position i of the sample list
Reaches(m, i) ==
    \A j \in 1..(i - 1) :
        \/ DfEmpty(dataframes[j])
        \/ /\ AllText(dataframes[j].columns)
           /\ HasMatch(dataframes[j].columns, XTarget)
           /\ HasMatch(dataframes[j].columns, COLUMN_NAMES[m])

(***************************************************************************)
(* C1                                                                      *)
(***************************************************************************)
\* C1 as stated: whenever a visited table has the column
\* " Ang. Frequency (rad/s) ", the frequency column "Angular Frequency"
\* resolves.
C1_AbbrevResolves ==
    \A m \in Metrics : \A e \in Entries(m) :
        (\E j \in 1..Len(FileNamed(e.name).columns) :
            FileNamed(e.name).columns[j] = Str(ColFreqAbbrev))
        => e.actual_x_col # NoneValue

\* C1 amended: in every visited table a target resolves exactly when some
\* column's trimmed, lowercased name contains the lowercased target as a
\* substring; so " ANGULAR FREQUENCY " resolves against "Angular Frequency"
\* and " Ang. Frequency (rad/s) " does not.
C1_SubstringResolution ==
    \A m \in Metrics : \A e \in Entries(m) :
        LET header == FileNamed(e.name).columns
        IN  /\ e.actual_x_col # NoneValue <=> HasMatch(header, XTarget)
            /\ e.actual_y_col # NoneValue <=> HasMatch(header, COLUMN_NAMES[m])
            /\ header = HeaderAbbrev => e.actual_x_col = NoneValue
            /\ header = HeaderFull => e.actual_x_col = Str(ColFreqPlain)

C1_Witness ==
    \E e1 \in Entries("g_prime") : \E e2 \in Entries("g_prime") :
        /\ FileNamed(e1.name).columns = HeaderFull
        /\ e1.actual_x_col = Str(ColFreqPlain)
        /\ FileNamed(e2.name).columns = HeaderAbbrev
        /\ e2.actual_x_col = NoneValue

(***************************************************************************)
(* C2                                                                      *)
(***************************************************************************)
\* C2 as stated: when a call on two samples returns and one of the two
\* samples lacks a column matching the y target, it returns None, None.
C2_AllOrNothing ==
    \A m \in Metrics :
        /\ results[m].kind \in {"none", "chart"}
        /\ Len(dataframes) = 2
        /\ \E i \in 1..2 : ~HasMatch(dataframes[i].columns, COLUMN_NAMES[m])
        => results[m].kind = "none"

\* C2 amended: when one of the two samples has a non-empty table that lacks
\* a column matching the y target, the call yields no chart in either order:
\* it returns None, None, or it raises where a non-empty sample has a header
\* cell that is not text.
C2_AllOrNothingNonEmpty ==
    \A m \in Metrics :
        /\ Called(m)
        /\ Len(dataframes) = 2
        /\ \E i \in 1..2 : /\ ~DfEmpty(dataframes[i])
                           /\ ~HasMatch(dataframes[i].columns, COLUMN_NAMES[m])
        => \/ results[m].kind = "none"
           \/ /\ results[m].kind = "raised"
              /\ \E k \in 1..2 : /\ ~DfEmpty(dataframes[k])
                                 /\ ~AllText(dataframes[k].columns)

C2_Witness ==
    /\ Len(dataframes) = 2
    /\ results["g_prime"].kind = "none"
    /\ ~DfEmpty(dataframes[1])
    /\ HasMatch(dataframes[1].columns, XTarget)
    /\ HasMatch(dataframes[1].columns, COLUMN_NAMES["g_prime"])
    /\ ~DfEmpty(dataframes[2])
    /\ HasMatch(dataframes[2].columns, XTarget)
    /\ ~HasMatch(dataframes[2].columns, COLUMN_NAMES["g_prime"])

(***************************************************************************)
(* C3                                                                      *)
(***************************************************************************)
\* C3: every cell of a loaded table is a converted number, and the table
\* holds exactly the rows under the units row whose cells are all numeric.
C3_CompleteRows ==
    \A k \in 1..Len(dataframes) :
        LET df == dataframes[k]
            raw == FileNamed(df.name).rows
        IN  /\ \A a \in 1..Len(df.rows) :
                  /\ AllNumeric(df.rows[a])
                  /\ \E i \in 2..Len(raw) : raw[i] = df.rows[a]
            /\ Len(df.rows) = Cardinality({i \in 2..Len(raw) : AllNumeric(raw[i])})

C3_Witness ==
    \E k \in 1..Len(dataframes) :
        LET df == dataframes[k]
            raw == FileNamed(df.name).rows
        IN  /\ Len(raw) = 3
            /\ ~AllNumeric(raw[2])
            /\ \E j \in 1..2 : raw[2][j] \in NumericCells
            /\ AllNumeric(raw[3])
            /\ df.rows = <<raw[3]>>

(***************************************************************************)
(* C4                                                                      *)
(***************************************************************************)
\* C4: after any number of loop iterations the error reports name exactly
\* the unreadable files processed so far, once each, the sample list and the
\* diagnostics list hold exactly the readable ones in upload order, and the
\* loop ends only after the last file.
C4_FailuresSkipped ==
    LET n == IF pc = "load" THEN idx - 1 ELSE Len(uploaded_files)
        seen == SubSeq(uploaded_files, 1, n)
        good == SelectSeq(seen, LAMBDA f : f.readable)
        bad == SelectSeq(seen, LAMBDA f : ~f.readable)
    IN  /\ idx <= Len(uploaded_files) + 1
        /\ pc # "load" => idx = Len(uploaded_files) + 1
        /\ errors = [k \in 1..Len(bad) |-> bad[k].name]
        /\ [k \in 1..Len(dataframes) |-> dataframes[k].name]
             = [k \in 1..Len(good) |-> good[k].name]
        /\ [k \in 1..Len(debug_info) |-> debug_info[k].name]
             = [k \in 1..Len(good) |-> good[k].name]

C4_Witness ==
    /\ pc = "g_prime"
    /\ Len(uploaded_files) = 2
    /\ ~uploaded_files[1].readable
    /\ uploaded_files[2].readable
    /\ errors = <<uploaded_files[1].name>>
    /\ Len(dataframes) = 1
    /\ dataframes[1].name = uploaded_files[2].name

(***************************************************************************)
(* C5                                                                      *)
(***************************************************************************)
HasEmptyWarning(m, name) ==
    \E k \in 1..Len(warnings[m]) : warnings[m][k] = [kind |-> "empty", name |-> name]

IsPlotted(m, name) ==
    \E k \in 1..Len(results[m].series) : results[m].series[k].label = name

\* C5 as stated: in every call, every sample with an empty table is warned
\* about by name and is not plotted, whatever precedes it in the list.
C5_EmptyAlwaysWarned ==
    \A m \in Metrics : \A i \in 1..Len(dataframes) :
        Called(m) /\ DfEmpty(dataframes[i])
        => /\ HasEmptyWarning(m, dataframes[i].name)
           /\ ~IsPlotted(m, dataframes[i].name)

\* C5 amended: in every call a sample with an empty table is never plotted,
\* and it is warned about by name exactly when the loop reaches it, that is
\* when no non-empty sample before it has an unresolved column or a header
\* cell that is not text.
C5_EmptyWarnedWhenReached ==
    \A m \in Metrics : \A i \in 1..Len(dataframes) :
        Called(m) /\ DfEmpty(dataframes[i])
        => /\ HasEmptyWarning(m, dataframes[i].name) <=> Reaches(m, i)
           /\ ~IsPlotted(m, dataframes[i].name)

C5_Witness ==
    /\ Len(dataframes) = 2
    /\ results["g_double_prime"].kind = "chart"
    /\ ~DfEmpty(dataframes[1])
    /\ DfEmpty(dataframes[2])
    /\ warnings["g_double_prime"] = <<[kind |-> "empty", name |-> dataframes[2].name]>>
    /\ Len(results["g_double_prime"].series) = 1

(***************************************************************************)
(* C6                                                                      *)
(***************************************************************************)
\* C6: no session ends in an uncaught exception.
C6_NoFatalError == pc # "crashed"

(***************************************************************************)
(* C7                                                                      *)
(***************************************************************************)
NonEmptyPositions == {i \in 1..Len(dataframes) : ~DfEmpty(dataframes[i])}

\* C7: a returned chart has at least one series, one per sample with a
\* non-empty table, in list order and labelled with the sample's file name;
\* a call that returns with nothing plotted returns None, None.
C7_OneSeriesPerSample ==
    \A m \in Metrics :
        /\ results[m].kind = "chart"
           => LET s == results[m].series
              IN  /\ Len(s) >= 1
                  /\ Len(s) = Cardinality(NonEmptyPositions)
                  /\ \A k \in 1..Len(s) :
                        \E i \in NonEmptyPositions :
                           /\ s[k].label = dataframes[i].name
                           /\ Cardinality({j \in NonEmptyPositions : j < i}) = k - 1
        /\ results[m].kind \in {"none", "chart"} /\ results[m].plot_success_count = 0
           => results[m].kind = "none"

C7_Witness ==
    /\ results["g_double_prime"].kind = "chart"
    /\ Len(dataframes) = 2
    /\ Len(results["g_double_prime"].series) = 2
    /\ results["g_double_prime"].series[1].label = dataframes[1].name
    /\ results["g_double_prime"].series[2].label = dataframes[2].name

(***************************************************************************)
(* C8                                                                      *)
(***************************************************************************)
\* the trimmed, lowercased name of the first column of the header, in column
\* order, that matches the target
IsFirstMatch(header, target, col) ==
    \E j \in 1..Len(header) :
        /\ Matches(header[j], target)
        /\ \A k \in 1..(j - 1) : ~Matches(header[k], target)
        /\ LET n == Trimmed(header[j].val)
           IN  col = Str([i \in 1..Len(n) |-> LowerChar(n[i])])

MatchCount(header, target) ==
    Cardinality({j \in 1..Len(header) : Matches(header[j], target)})

\* C8: a resolved x or y column is the first matching column in the table's
\* column order, and a sample whose two targets both match, however many
\* columns match them, draws no warning.
C8_FirstMatchNoWarning ==
    \A m \in Metrics :
        /\ \A e \in Entries(m) :
              LET header == FileNamed(e.name).columns
              IN  /\ e.actual_x_col # NoneValue
                     => IsFirstMatch(header, XTarget, e.actual_x_col)
                  /\ e.actual_y_col # NoneValue
                     => IsFirstMatch(header, COLUMN_NAMES[m], e.actual_y_col)
        /\ \A i \in 1..Len(dataframes) :
              /\ ~DfEmpty(dataframes[i])
              /\ HasMatch(dataframes[i].columns, XTarget)
              /\ HasMatch(dataframes[i].columns, COLUMN_NAMES[m])
              => \A k \in 1..Len(warnings[m]) :
                    warnings[m][k].name # dataframes[i].name

C8_Witness ==
    /\ results["g_prime"].kind = "chart"
    /\ warnings["g_prime"] = <<>>
    /\ \E e \in Entries("g_prime") :
          /\ FileNamed(e.name).columns = HeaderAmbiguous
          /\ MatchCount(HeaderAmbiguous, XTarget) = 2
          /\ MatchCount(HeaderAmbiguous, COLUMN_NAMES["g_prime"]) = 2
          /\ e.actual_x_col = Str(Lower(ColFreqHz))
          /\ e.actual_y_col = Str(Lower(ColStoragePa))

(***************************************************************************)
(* C9                                                                      *)
(***************************************************************************)
\* C9: a readable sheet with n rows under the header yields a table of at
\* most n-1 rows (none when n is 0 or 1), the first row being dropped even
\* when all its cells are numeric, and the table is appended to the sample
\* list even when it is empty.
C9_UnitsRowDropped ==
    /\ \A k \in 1..Len(dataframes) :
          LET df == dataframes[k]
              raw == FileNamed(df.name).rows
          IN  /\ Len(raw) >= 1 => Len(df.rows) <= Len(raw) - 1
              /\ Len(raw) <= 1 => df.rows = <<>>
    /\ \A i \in 1..Len(uploaded_files) :
          (uploaded_files[i].readable /\ (pc # "load" \/ i < idx))
          => \E k \in 1..Len(dataframes) : dataframes[k].name = uploaded_files[i].name

C9_Witness ==
    \E k \in 1..Len(dataframes) :
        LET df == dataframes[k]
            raw == FileNamed(df.name).rows
        IN  /\ Len(raw) = 3
            /\ \A i \in 1..3 : AllNumeric(raw[i])
            /\ df.rows = <<raw[2], raw[3]>>

(***************************************************************************)
(* C10                                                                     *)
(***************************************************************************)
\* C10: every metric call that is made on the shared, renamed-in-place
\* tables has the outcome (exception, None or chart, and the series) that the
\* same call has alone on the freshly loaded samples, and a call that is
\* never made would not have produced a chart.
C10_CallsIndependent ==
    \A m \in Metrics :
        /\ Called(m) => results[m] = PlotAlone(m)
        /\ (pc \in {"done", "crashed"} /\ ~Called(m)) => PlotAlone(m).kind # "chart"

C10_Witness ==
    /\ Len(dataframes) = 2
    /\ results["g_prime"].kind = "none"
    /\ results["g_double_prime"].kind = "chart"
    /\ Len(results["g_double_prime"].series) = 2
    /\ dataframes # FreshSamples
    /\ FreshSamples[2].columns = HeaderFull

====
